---- MODULE Spec2Model ----
(***************************************************************************)
(* Model of the STOMP-over-WebSocket client of src/stomp_ws/client.py      *)
(* (class Client).                                                         *)
(*                                                                         *)
(* The application context calls connect, disconnect, subscribe and        *)
(* unsubscribe; the background context (the thread running                 *)
(* ws.run_forever) calls _on_open, _on_error, _on_close and _on_message.   *)
(* connect blocks the application context in the polling loop of           *)
(* _connect, so it is modelled stepwise (pc); in Spec every other          *)
(* operation runs to completion in one step.                               *)
(*                                                                         *)
(* The transport (websocket.WebSocketApp) is an external collaborator: it  *)
(* is modelled by its interface only.  ws is its life-cycle position,      *)
(* on_close is the attribute ws.on_close, and ws.send(out) hands the frame *)
(* to the transport, which records it in sent.  The transport may deliver  *)
(* any notification and any inbound frame that its life-cycle position     *)
(* allows.                                                                 *)
(*                                                                         *)
(* Four specifications:                                                    *)
(*   Spec           every operation in one step (connect apart); ws.send   *)
(*                  is taken to accept every frame.                        *)
(*   SpecTransport  as Spec, with ws.send as the websocket library has it: *)
(*                  without an open socket it raises.                      *)
(*   SpecAck        Spec's subscribe, unsubscribe and connect, with ack,   *)
(*                  nack and the handles of delivered frames.              *)
(*   SpecSteps      subscribe, unsubscribe, disconnect, connect and        *)
(*                  _on_message statement by statement, the two threads    *)
(*                  interleaved freely; ws.send accepts every frame.       *)
(*                                                                         *)
(* call, sent, invoked, raised, parsed and handshake are observation       *)
(* variables: what the last operation was, which frames it handed to       *)
(* ws.send, which callbacks it invoked, which exception it raised, whether *)
(* the frame unmarshaller ran, and whether a CONNECTED frame has been      *)
(* dispatched since the transport last closed or disconnect last ran.      *)
(***************************************************************************)
EXTENDS Integers, Sequences, FiniteSets, TLC

VARIABLES
    opened,            \* self.opened
    connected,         \* self.connected
    counter,           \* self.counter
    subscriptions,     \* self.subscriptions: a dict, kept in insertion order
    _connectCallback,  \* self._connectCallback
    errorCallback,     \* self.errorCallback
    pingCallback,      \* self.pingCallback (no such attribute until connect stores it)
    on_close,          \* self.ws.on_close is still self._on_close
    ws,                \* the transport: "idle", "connecting", "open", "closing", "closed"
    pc,                \* position of the application context inside connect
    timeout,           \* _connect's parameter timeout
    total_ms,          \* _connect's local total_ms
    pending,           \* the callbacks given to the connect call in progress
    call,              \* the last operation and its arguments
    sent,              \* frames handed to ws.send by the last operation
    invoked,           \* callbacks invoked by the last operation
    raised,            \* exception raised by the last operation
    parsed,            \* the last operation called Frame.unmarshall_single
    handshake,         \* a CONNECTED frame was dispatched since the last close/disconnect
    app,               \* the application context inside an operation followed
                       \* statement by statement: position, arguments, locals
    bg,                \* the background context inside _on_message: position, frame
    kept               \* delivered frames whose ack/nack handles the application holds

vars == << opened, connected, counter, subscriptions, _connectCallback,
           errorCallback, pingCallback, on_close, ws, pc, timeout, total_ms,
           pending, call, sent, invoked, raised, parsed, handshake, app, bg,
           kept >>

\* what only the statement-level specifications and the ack/nack
\* specification change
fine == << app, bg, kept >>

client == << opened, connected, counter, subscriptions, _connectCallback,
             errorCallback, pingCallback >>

-----------------------------------------------------------------------------
(* Bounds and constants *)

\* subscribe mints an id only while counter < MaxCounter
MaxCounter == 2

\* the polling loop sleeps at most MaxPolls times in one connect call
MaxPolls == 3

\* time.sleep(.25); total_ms += 250
PollMs == 250

\* connect_timeout values tried (milliseconds; 0 waits for ever)
Timeouts == {0, 100, 500}

VERSIONS == "1.0,1.1,1.2"

Url == "ws://broker"

None == "None"

\* reading an attribute __init__ never assigned raises AttributeError
NoAttribute == "<no attribute>"

NoError == "no error"

\* callbacks an application passes to subscribe (None is the default)
Callbacks == {"cbA", "cbB"}

\* id headers an application supplies to subscribe
UserIds == {"sub-0"}

Destinations == {"/queue/a"}

MessageIds == {"m1"}

-----------------------------------------------------------------------------
(* Python values *)

Digit(d) == CASE d = 0 -> "0" [] d = 1 -> "1" [] d = 2 -> "2" [] d = 3 -> "3"
              [] d = 4 -> "4" [] d = 5 -> "5" [] d = 6 -> "6" [] d = 7 -> "7"
              [] d = 8 -> "8" [] d = 9 -> "9"

\* str(n) for n >= 0
RECURSIVE str(_)
str(n) == IF n < 10 THEN Digit(n) ELSE str(n \div 10) \o Digit(n % 10)

\* a dict is the sequence of its <<key, value>> items in insertion order
keys(d) == [i \in 1..Len(d) |-> d[i][1]]

Has(d, k) == \E i \in 1..Len(d) : d[i][1] = k

Get(d, k) == d[CHOOSE i \in 1..Len(d) : d[i][1] = k][2]

\* d[k] = v: an existing key keeps its place
Put(d, k, v) ==
    IF Has(d, k)
    THEN [i \in 1..Len(d) |-> IF d[i][1] = k THEN <<k, v>> ELSE d[i]]
    ELSE Append(d, <<k, v>>)

\* del d[k], for a key that is present
Del(d, k) == SelectSeq(d, LAMBDA e : e[1] # k)

KeySet(d) == {d[i][1] : i \in 1..Len(d)}

\* every id a subscription can be registered under
Ids == UserIds \cup {"sub-" \o str(n) : n \in 0..(MaxCounter - 1)}

-----------------------------------------------------------------------------
(* Frames *)

\* Frame(command, headers): headers is a dict
Frame(command, headers) == [command |-> command, headers |-> headers]

\* An inbound transport message is the sequence of its lines: the command
\* line <<command>>, one <<key, value>> per header line (split at the first
\* colon), and the blank line <<>> that ends the headers.
Wire(command, headerLines) == << <<command>> >> \o headerLines \o << <<>> >>

\* the message "\n": a single empty line
Heartbeat == << <<>> >>

RECURSIVE parse_headers(_, _, _)
parse_headers(lines, i, acc) ==
    IF i > Len(lines) \/ lines[i] = <<>>
    THEN acc
    ELSE parse_headers(lines, i + 1, Put(acc, lines[i][1], lines[i][2]))

\* Frame.unmarshall_single(message): first line the command, header lines up
\* to the first blank line, a later duplicate key overwriting an earlier one
unmarshall_single(message) ==
    Frame(message[1][1], parse_headers(message, 2, <<>>))

\* messages the transport may deliver
InMessages ==
    {Heartbeat,
     Wire("CONNECTED", << <<"version", "1.2">> >>),
     Wire("RECEIPT", << <<"receipt-id", "r1">> >>),
     Wire("ERROR", << <<"message", "failed">> >>),
     Wire("BOGUS", <<>>)}
    \cup {Wire("MESSAGE", << <<"subscription", s>>, <<"message-id", m>> >>) :
            s \in Ids, m \in MessageIds}

\* self._transmit(command, headers): marshal the frame, hand it to ws.send;
\* log is the list of frames the running operation has handed over so far
_transmit(log, command, headers) == Append(log, Frame(command, headers))

-----------------------------------------------------------------------------
(* Operations of the application context *)

NoCall == [op |-> "__init__", id |-> None, callback |-> None, command |-> None,
           timeout |-> 0, total_ms |-> 0]

\* one callback invocation; handle is the <<message-id, subscription>> the
\* ack and nack closures attached to the frame are bound to (<<>> if none)
Invocation(callback, handle) == [callback |-> callback, handle |-> handle]

Called(op, id, callback) == [NoCall EXCEPT !.op = op, !.id = id, !.callback = callback]

\* headers = None as an argument (an empty dict is <<>>)
NoHeaders == << <<None>> >>

\* the application context is in no statement-level operation.  id,
\* message_id, headers and callback are the arguments and locals of the
\* operation in progress or of the last ack/nack call; cleanups counts the
\* _clean_up calls of the disconnect call in progress; disconnected says
\* that disconnect has returned and connect was not called since; live is
\* the set of ids whose SUBSCRIBE frame has gone out and for which neither
\* unsubscribe nor disconnect has been called since
AppIdle == [pc |-> "idle", id |-> None, message_id |-> None, headers |-> <<>>,
            callback |-> None, cleanups |-> 0, disconnected |-> FALSE,
            live |-> {}]

\* the background context is in no statement-level _on_message call
BgIdle == [pc |-> "idle", frame |-> Frame(None, <<>>)]

\* "sub-" + str(self.counter)
minted_id(c) == "sub-" \o str(c)

\* 'id' not in headers
mints(headers) == ~Has(headers, "id")

\* subscribe(destination, callback, headers): lines 189-196
subscribe(destination, callback, headers) ==
    LET h1 == IF mints(headers) THEN Put(headers, "id", minted_id(counter)) ELSE headers
        h2 == Put(h1, "destination", destination)
        id == Get(h2, "id")
    IN  /\ counter' = IF mints(headers) THEN counter + 1 ELSE counter
        /\ subscriptions' = Put(subscriptions, id, callback)
        /\ sent' = _transmit(<<>>, "SUBSCRIBE", h2)
        /\ call' = Called("subscribe", id, callback)

Subscribe ==
    /\ pc = "idle"
    /\ \E destination \in Destinations, callback \in Callbacks \cup {None},
          headers \in {<<>>} \cup {<< <<"id", u>> >> : u \in UserIds} :
            /\ mints(headers) => counter < MaxCounter
            /\ subscribe(destination, callback, headers)
    /\ invoked' = <<>>
    /\ raised' = NoError
    /\ parsed' = FALSE
    /\ UNCHANGED << opened, connected, _connectCallback, errorCallback,
                    pingCallback, on_close, ws, pc, timeout, total_ms, pending,
                    handshake >>

\* faulty variant: self.subscriptions.pop(id, None): an absent id is ignored
unsubscribe_pop(st, id) ==
    [st EXCEPT !.subscriptions = Del(@, id),
               !.sent = _transmit(@, "UNSUBSCRIBE", << <<"id", id>> >>)]

\* unsubscribe(id) applied to st = [subscriptions, sent, raised]:
\* del self.subscriptions[id] raises KeyError for an absent id
unsubscribe(st, id) ==
    IF ~Has(st.subscriptions, id)
    THEN [st EXCEPT !.raised = "KeyError"]
    ELSE [st EXCEPT !.subscriptions = Del(@, id),
                    !.sent = _transmit(@, "UNSUBSCRIBE", << <<"id", id>> >>)]

\* self.unsubscribe(id), also the closure subscribe returned for id
Unsubscribe ==
    /\ pc = "idle"
    /\ \E id \in Ids :
         LET st == unsubscribe([subscriptions |-> subscriptions, sent |-> <<>>,
                                raised |-> NoError], id)
         IN  /\ subscriptions' = st.subscriptions
             /\ sent' = st.sent
             /\ raised' = st.raised
             /\ call' = Called("unsubscribe", id, None)
    /\ invoked' = <<>>
    /\ parsed' = FALSE
    /\ UNCHANGED << opened, connected, counter, _connectCallback, errorCallback,
                    pingCallback, on_close, ws, pc, timeout, total_ms, pending,
                    handshake >>

\* faulty variant: the loop runs over the live dict and misses the first key
subscription_ids_live(d) == IF d = <<>> THEN <<>> ELSE Tail(keys(d))

\* subscription_ids = list(self.subscriptions.keys())
subscription_ids(d) == keys(d)

\* for id in subscription_ids: self.unsubscribe(id)
RECURSIVE unsubscribe_each(_, _)
unsubscribe_each(ids, st) ==
    IF ids = <<>> \/ st.raised # NoError
    THEN st
    ELSE unsubscribe_each(Tail(ids), unsubscribe(st, Head(ids)))

\* self.ws.close()
ws_close(w) == IF w \in {"connecting", "open"} THEN "closed" ELSE w

\* _clean_up(): the value it leaves in self.connected
_clean_up(c) == FALSE

\* disconnect(disconnectCallback, headers = None)
Disconnect ==
    /\ pc = "idle"
    /\ \E disconnectCallback \in {None, "onDisconnect"} :
         LET st == unsubscribe_each(subscription_ids(subscriptions),
                                    [subscriptions |-> subscriptions,
                                     sent |-> <<>>, raised |-> NoError])
         IN  /\ call' = Called("disconnect", None, disconnectCallback)
             /\ subscriptions' = st.subscriptions
             /\ raised' = st.raised
             /\ IF st.raised # NoError
                THEN /\ sent' = st.sent
                     /\ invoked' = <<>>
                     /\ UNCHANGED << on_close, ws, connected, handshake >>
                ELSE /\ sent' = _transmit(st.sent, "DISCONNECT", <<>>)
                     /\ on_close' = FALSE
                     /\ ws' = ws_close(ws)
                     /\ connected' = _clean_up(connected)
                     /\ handshake' = FALSE
                     /\ invoked' = IF disconnectCallback # None
                                   THEN << Invocation(disconnectCallback, <<>>) >>
                                   ELSE <<>>
    /\ parsed' = FALSE
    /\ UNCHANGED << opened, counter, _connectCallback, errorCallback,
                    pingCallback, pc, timeout, total_ms, pending >>

-----------------------------------------------------------------------------
(* connect: the application context blocks in _connect's polling loop *)

NoPending == [connectCallback |-> None, errorCallback |-> None, pingCallback |-> None]

\* the callback triples an application passes to connect
CallbackChoices ==
    {NoPending,
     [connectCallback |-> "onConnect", errorCallback |-> "onError",
      pingCallback |-> "onHeartbeat"]}

\* Thread(target = self.ws.run_forever).start()
run_forever(w) == IF w \in {"idle", "closed"} THEN "connecting" ELSE w

\* connect(...) up to total_ms = 0 in _connect: lines 143, 39-50
Connect ==
    /\ pc = "idle"
    /\ \E t \in Timeouts, cbs \in CallbackChoices :
         /\ timeout' = t
         /\ pending' = cbs
    /\ ws' = run_forever(ws)
    /\ total_ms' = 0
    /\ pc' = "while"
    /\ call' = Called("_connect", None, None)
    /\ sent' = <<>>
    /\ invoked' = <<>>
    /\ raised' = NoError
    /\ parsed' = FALSE
    /\ UNCHANGED << opened, connected, counter, subscriptions, _connectCallback,
                    errorCallback, pingCallback, on_close, handshake >>

\* while self.opened is False: the test finds opened false, the body starts
LoopTest ==
    /\ pc = "while"
    /\ opened = FALSE
    /\ pc' = "sleep"
    /\ call' = Called("_connect", None, None)
    /\ sent' = <<>>
    /\ invoked' = <<>>
    /\ raised' = NoError
    /\ parsed' = FALSE
    /\ UNCHANGED << opened, connected, counter, subscriptions, _connectCallback,
                    errorCallback, pingCallback, on_close, ws, timeout, total_ms,
                    pending, handshake >>

\* faulty variant: the comparison the other way round
timed_out_reversed(t, total) == 0 < total /\ total < t

\* 0 < timeout < total_ms
timed_out(t, total) == 0 < t /\ t < total

\* time.sleep(.25); total_ms += 250; if 0 < timeout < total_ms: raise TimeoutError
Sleep ==
    /\ pc = "sleep"
    /\ total_ms < MaxPolls * PollMs
    /\ LET total == total_ms + PollMs
       IN  IF timed_out(timeout, total)
           THEN /\ raised' = "TimeoutError"
                /\ call' = [Called("connect", None, None) EXCEPT
                              !.timeout = timeout, !.total_ms = total]
                /\ pc' = "idle"
                /\ timeout' = 0
                /\ total_ms' = 0
                /\ pending' = NoPending
           ELSE /\ raised' = NoError
                /\ call' = Called("_connect", None, None)
                /\ pc' = "while"
                /\ total_ms' = total
                /\ UNCHANGED << timeout, pending >>
    /\ sent' = <<>>
    /\ invoked' = <<>>
    /\ parsed' = FALSE
    /\ UNCHANGED << opened, connected, counter, subscriptions, _connectCallback,
                    errorCallback, pingCallback, on_close, ws, handshake >>

\* the CONNECT headers for login, passcode, host, headers = None, ping_interval = 0
connect_headers ==
    << <<"host", Url>>, <<"accept-version", VERSIONS>>, <<"heart-beat", "0,0">> >>

\* the test finds opened true: _connect returns, connect stores the callbacks
\* and transmits CONNECT (lines 145-159)
ConnectReturn ==
    /\ pc = "while"
    /\ opened = TRUE
    /\ _connectCallback' = pending.connectCallback
    /\ errorCallback' = pending.errorCallback
    /\ pingCallback' = pending.pingCallback
    /\ sent' = _transmit(<<>>, "CONNECT", connect_headers)
    /\ call' = [Called("connect", None, None) EXCEPT
                  !.timeout = timeout, !.total_ms = total_ms]
    /\ pc' = "idle"
    /\ timeout' = 0
    /\ total_ms' = 0
    /\ pending' = NoPending
    /\ invoked' = <<>>
    /\ raised' = NoError
    /\ parsed' = FALSE
    /\ UNCHANGED << opened, connected, counter, subscriptions, on_close, ws,
                    handshake >>

-----------------------------------------------------------------------------
(* Handlers of the background context *)

\* faulty variant: a notification flips the flag instead of setting it
set_opened_toggle(o) == ~o

\* _on_open and the first two lines of _on_close and _on_error
set_opened(o) == TRUE

\* self.connected after _on_close: connected = False, then _clean_up()
on_close_connected(c) == _clean_up(FALSE)

\* faulty variant: _on_error resets the flag as _on_close does
on_error_connected_reset(c) == FALSE

\* self.connected after _on_error: it is not assigned
on_error_connected(c) == c

\* the transport opens the connection and calls ws.on_open
OnOpen ==
    /\ ws = "connecting"
    /\ ws' = "open"
    /\ opened' = set_opened(opened)
    /\ call' = Called("_on_open", None, None)
    /\ sent' = <<>>
    /\ invoked' = <<>>
    /\ raised' = NoError
    /\ parsed' = FALSE
    /\ UNCHANGED << connected, counter, subscriptions, _connectCallback,
                    errorCallback, pingCallback, on_close, pc, timeout, total_ms,
                    pending, handshake >>

\* the transport reports an error and calls ws.on_error
OnError ==
    /\ ws \in {"connecting", "open"}
    /\ opened' = (IF ~opened THEN set_opened(opened) ELSE opened)
    /\ connected' = on_error_connected(connected)
    /\ call' = Called("_on_error", None, None)
    /\ sent' = <<>>
    /\ invoked' = <<>>
    /\ raised' = NoError
    /\ parsed' = FALSE
    /\ UNCHANGED << counter, subscriptions, _connectCallback, errorCallback,
                    pingCallback, on_close, ws, pc, timeout, total_ms, pending,
                    handshake >>

\* the transport closes and calls ws.on_close, if it is still set
OnClose ==
    /\ ws \in {"connecting", "open"}
    /\ ws' = "closed"
    /\ handshake' = FALSE
    /\ IF on_close
       THEN /\ opened' = (IF ~opened THEN set_opened(opened) ELSE opened)
            /\ connected' = on_close_connected(connected)
            /\ call' = Called("_on_close", None, None)
       ELSE /\ call' = Called("closed", None, None)
            /\ UNCHANGED << opened, connected >>
    /\ sent' = <<>>
    /\ invoked' = <<>>
    /\ raised' = NoError
    /\ parsed' = FALSE
    /\ UNCHANGED << counter, subscriptions, _connectCallback, errorCallback,
                    pingCallback, on_close, pc, timeout, total_ms, pending >>

\* the outcome of one _on_message call
Outcome(c, h, inv, exc, p) ==
    [connected |-> c, handshake |-> h, invoked |-> inv, raised |-> exc, parsed |-> p]

\* calling a value: None is not callable, a missing attribute cannot be read
invoke(callback, handle) ==
    IF callback = NoAttribute THEN [invoked |-> <<>>, raised |-> "AttributeError"]
    ELSE IF callback = None THEN [invoked |-> <<>>, raised |-> "TypeError"]
    ELSE [invoked |-> << Invocation(callback, handle) >>, raised |-> NoError]

\* if message == '\n': self.pingCallback(message); return
on_heartbeat ==
    LET r == invoke(pingCallback, <<>>)
    IN  Outcome(connected, handshake, r.invoked, r.raised, FALSE)

\* faulty variant: the connect callback is invoked twice for one frame
on_connected_twice ==
    LET r == IF _connectCallback # None
             THEN invoke(_connectCallback, <<>>)
             ELSE [invoked |-> <<>>, raised |-> NoError]
    IN  Outcome(TRUE, TRUE, r.invoked \o r.invoked, r.raised, TRUE)

\* frame.command == "CONNECTED"
on_connected ==
    LET r == IF _connectCallback # None
             THEN invoke(_connectCallback, <<>>)
             ELSE [invoked |-> <<>>, raised |-> NoError]
    IN  Outcome(TRUE, TRUE, r.invoked, r.raised, TRUE)

\* subscription in self.subscriptions
registered(subscription) == Has(subscriptions, subscription)

\* faulty variant: the callback of the oldest subscription, whatever the id
onreceive_first(subscription) == subscriptions[1][2]

\* onreceive = self.subscriptions[subscription]
onreceive(subscription) == Get(subscriptions, subscription)

\* faulty variant: the registry is indexed without the membership test
on_message_frame_untested(frame) ==
    LET subscription == Get(frame.headers, "subscription")
    IN  IF registered(subscription)
        THEN LET messageID == Get(frame.headers, "message-id")
                 r == invoke(onreceive(subscription), <<messageID, subscription>>)
             IN  Outcome(connected, handshake, r.invoked, r.raised, TRUE)
        ELSE Outcome(connected, handshake, <<>>, "KeyError", TRUE)

\* faulty variant: the handles are bound to the subscription the registry
\* lists first, not to the frame's own
on_message_frame_misbound(frame) ==
    LET subscription == Get(frame.headers, "subscription")
    IN  IF registered(subscription)
        THEN LET messageID == Get(frame.headers, "message-id")
                 r == invoke(onreceive(subscription),
                             <<messageID, keys(subscriptions)[1]>>)
             IN  Outcome(connected, handshake, r.invoked, r.raised, TRUE)
        ELSE Outcome(connected, handshake, <<>>, NoError, TRUE)

\* frame.command == "MESSAGE"
on_message_frame(frame) ==
    LET subscription == Get(frame.headers, "subscription")
    IN  IF registered(subscription)
        THEN LET messageID == Get(frame.headers, "message-id")
                 r == invoke(onreceive(subscription), <<messageID, subscription>>)
             IN  Outcome(connected, handshake, r.invoked, r.raised, TRUE)
        ELSE Outcome(connected, handshake, <<>>, NoError, TRUE)

\* frame.command == 'ERROR'
on_error_frame ==
    LET r == IF errorCallback # None
             THEN invoke(errorCallback, <<>>)
             ELSE [invoked |-> <<>>, raised |-> NoError]
    IN  Outcome(connected, handshake, r.invoked, r.raised, TRUE)

\* _on_message(ws, message)
_on_message(message) ==
    IF message = Heartbeat
    THEN on_heartbeat
    ELSE LET frame == unmarshall_single(message)
         IN  CASE frame.command = "CONNECTED" -> on_connected
               [] frame.command = "MESSAGE" -> on_message_frame(frame)
               [] frame.command = "RECEIPT" ->
                    Outcome(connected, handshake, <<>>, NoError, TRUE)
               [] frame.command = "ERROR" -> on_error_frame
               [] OTHER -> Outcome(connected, handshake, <<>>, NoError, TRUE)

\* what the call record keeps of an inbound message
Received(message) ==
    IF message = Heartbeat
    THEN [Called("_on_message", None, None) EXCEPT !.command = "heartbeat"]
    ELSE LET frame == unmarshall_single(message)
         IN  [Called("_on_message",
                     IF frame.command = "MESSAGE"
                     THEN Get(frame.headers, "subscription") ELSE None,
                     None) EXCEPT !.command = frame.command]

\* the transport delivers one message and calls ws.on_message
OnMessage ==
    /\ ws = "open"
    /\ \E message \in InMessages :
         LET r == _on_message(message)
         IN  /\ connected' = r.connected
             /\ handshake' = r.handshake
             /\ invoked' = r.invoked
             /\ raised' = r.raised
             /\ parsed' = r.parsed
             /\ call' = Received(message)
    /\ sent' = <<>>
    /\ UNCHANGED << opened, counter, subscriptions, _connectCallback,
                    errorCallback, pingCallback, on_close, ws, pc, timeout,
                    total_ms, pending >>

-----------------------------------------------------------------------------
(* The transport as the websocket library implements ws.send *)

\* what WebSocketApp.send raises when it has no open socket
ConnectionClosed == "WebSocketConnectionClosedException"

\* self.ws.send(out) applied to st = [subscriptions, sent, raised]: the
\* library takes the frame only on an open socket; before run_forever has
\* opened one and after the socket was closed it raises
ws_send(w, st, frame) ==
    IF w = "open"
    THEN [st EXCEPT !.sent = Append(@, frame)]
    ELSE [st EXCEPT !.raised = ConnectionClosed]

\* subscribe: the registry is updated (line 195), then the frame goes out
SubscribeOnTransport ==
    /\ pc = "idle"
    /\ \E destination \in Destinations,
          headers \in {<<>>} \cup {<< <<"id", u>> >> : u \in UserIds} :
         LET callback == "cbA"
             h1 == IF mints(headers)
                   THEN Put(headers, "id", minted_id(counter)) ELSE headers
             h2 == Put(h1, "destination", destination)
             id == Get(h2, "id")
             st == ws_send(ws, [subscriptions |-> Put(subscriptions, id, callback),
                                sent |-> <<>>, raised |-> NoError],
                           Frame("SUBSCRIBE", h2))
         IN  /\ mints(headers) => counter < MaxCounter
             /\ counter' = IF mints(headers) THEN counter + 1 ELSE counter
             /\ subscriptions' = st.subscriptions
             /\ sent' = st.sent
             /\ raised' = st.raised
             /\ call' = Called("subscribe", id, callback)
    /\ invoked' = <<>>
    /\ parsed' = FALSE
    /\ UNCHANGED << opened, connected, _connectCallback, errorCallback,
                    pingCallback, on_close, ws, pc, timeout, total_ms, pending,
                    handshake >>

\* unsubscribe(id): del self.subscriptions[id], then the frame goes out
unsubscribe_on(w, st, id) ==
    IF ~Has(st.subscriptions, id)
    THEN [st EXCEPT !.raised = "KeyError"]
    ELSE ws_send(w, [st EXCEPT !.subscriptions = Del(@, id)],
                 Frame("UNSUBSCRIBE", << <<"id", id>> >>))

UnsubscribeOnTransport ==
    /\ pc = "idle"
    /\ \E id \in Ids :
         LET st == unsubscribe_on(ws, [subscriptions |-> subscriptions,
                                       sent |-> <<>>, raised |-> NoError], id)
         IN  /\ subscriptions' = st.subscriptions
             /\ sent' = st.sent
             /\ raised' = st.raised
             /\ call' = Called("unsubscribe", id, None)
    /\ invoked' = <<>>
    /\ parsed' = FALSE
    /\ UNCHANGED << opened, connected, counter, _connectCallback, errorCallback,
                    pingCallback, on_close, ws, pc, timeout, total_ms, pending,
                    handshake >>

\* for id in subscription_ids: self.unsubscribe(id); the first exception
\* ends the loop and the disconnect call
RECURSIVE unsubscribe_each_on(_, _, _)
unsubscribe_each_on(w, ids, st) ==
    IF ids = <<>> \/ st.raised # NoError
    THEN st
    ELSE unsubscribe_each_on(w, Tail(ids), unsubscribe_on(w, st, Head(ids)))

\* disconnect(disconnectCallback): an exception of a _transmit call leaves
\* the lines after it undone
DisconnectOnTransport ==
    /\ pc = "idle"
    /\ \E disconnectCallback \in {None, "onDisconnect"} :
         LET st0 == unsubscribe_each_on(ws, subscription_ids(subscriptions),
                                        [subscriptions |-> subscriptions,
                                         sent |-> <<>>, raised |-> NoError])
             st == IF st0.raised # NoError
                   THEN st0
                   ELSE ws_send(ws, st0, Frame("DISCONNECT", <<>>))
         IN  /\ call' = Called("disconnect", None, disconnectCallback)
             /\ subscriptions' = st.subscriptions
             /\ sent' = st.sent
             /\ raised' = st.raised
             /\ IF st.raised # NoError
                THEN /\ invoked' = <<>>
                     /\ UNCHANGED << on_close, ws, connected, handshake >>
                ELSE /\ on_close' = FALSE
                     /\ ws' = ws_close(ws)
                     /\ connected' = _clean_up(connected)
                     /\ handshake' = FALSE
                     /\ invoked' = IF disconnectCallback # None
                                   THEN << Invocation(disconnectCallback, <<>>) >>
                                   ELSE <<>>
    /\ parsed' = FALSE
    /\ UNCHANGED << opened, counter, _connectCallback, errorCallback,
                    pingCallback, pc, timeout, total_ms, pending >>

\* connect after the wait: the callbacks are stored, then CONNECT goes out
ConnectReturnOnTransport ==
    /\ pc = "while"
    /\ opened = TRUE
    /\ _connectCallback' = pending.connectCallback
    /\ errorCallback' = pending.errorCallback
    /\ pingCallback' = pending.pingCallback
    /\ LET st == ws_send(ws, [subscriptions |-> subscriptions, sent |-> <<>>,
                              raised |-> NoError],
                         Frame("CONNECT", connect_headers))
       IN  /\ sent' = st.sent
           /\ raised' = st.raised
    /\ call' = [Called("connect", None, None) EXCEPT
                  !.timeout = timeout, !.total_ms = total_ms]
    /\ pc' = "idle"
    /\ timeout' = 0
    /\ total_ms' = 0
    /\ pending' = NoPending
    /\ invoked' = <<>>
    /\ parsed' = FALSE
    /\ UNCHANGED << opened, connected, counter, subscriptions, on_close, ws,
                    handshake >>

-----------------------------------------------------------------------------
(* ack, nack and the handles attached to a delivered frame *)

\* message-id headers of the MESSAGE frames delivered
AckMessageIds == {"m1", "m2"}

\* header arguments of ack and nack: None, an empty dict, and a dict that
\* already has both keys, with other values
AckHeaders ==
    {NoHeaders, <<>>,
     << <<"subscription", "other">>, <<"receipt", "r1">>, <<"message-id", "other">> >>}

\* faulty variant: headers.setdefault(...): the caller's values win
ack_headers_setdefault(message_id, subscription, headers) ==
    LET h0 == IF headers = NoHeaders THEN <<>> ELSE headers
        h1 == IF Has(h0, "message-id") THEN h0 ELSE Put(h0, "message-id", message_id)
    IN  IF Has(h1, "subscription") THEN h1 ELSE Put(h1, "subscription", subscription)

\* ack: if headers is None: headers = {}; headers["message-id"] = message_id;
\* headers['subscription'] = subscription
ack_headers(message_id, subscription, headers) ==
    LET h0 == IF headers = NoHeaders THEN <<>> ELSE headers
        h1 == Put(h0, "message-id", message_id)
    IN  Put(h1, "subscription", subscription)

\* nack: the same three statements
nack_headers(message_id, subscription, headers) ==
    LET h0 == IF headers = NoHeaders THEN <<>> ELSE headers
        h1 == Put(h0, "message-id", message_id)
    IN  Put(h1, "subscription", subscription)

\* the application calls ack(message_id, subscription, headers)
Ack ==
    /\ pc = "idle"
    /\ \E message_id \in AckMessageIds, subscription \in UserIds, headers \in AckHeaders :
         /\ sent' = _transmit(<<>>, "ACK", ack_headers(message_id, subscription, headers))
         /\ call' = Called("ack", subscription, None)
         /\ app' = [AppIdle EXCEPT !.message_id = message_id, !.id = subscription,
                                   !.headers = headers]
    /\ invoked' = <<>>
    /\ raised' = NoError
    /\ parsed' = FALSE
    /\ UNCHANGED << opened, connected, counter, subscriptions, _connectCallback,
                    errorCallback, pingCallback, on_close, ws, pc, timeout,
                    total_ms, pending, handshake, bg, kept >>

\* the application calls nack(message_id, subscription, headers)
Nack ==
    /\ pc = "idle"
    /\ \E message_id \in AckMessageIds, subscription \in UserIds, headers \in AckHeaders :
         /\ sent' = _transmit(<<>>, "NACK", nack_headers(message_id, subscription, headers))
         /\ call' = Called("nack", subscription, None)
         /\ app' = [AppIdle EXCEPT !.message_id = message_id, !.id = subscription,
                                   !.headers = headers]
    /\ invoked' = <<>>
    /\ raised' = NoError
    /\ parsed' = FALSE
    /\ UNCHANGED << opened, connected, counter, subscriptions, _connectCallback,
                    errorCallback, pingCallback, on_close, ws, pc, timeout,
                    total_ms, pending, handshake, bg, kept >>

\* a delivered frame the application holds: the message-id and subscription
\* header lines the message had on the wire, and the <<messageID,
\* subscription>> its ack and nack closures captured
Kept(message_id, subscription, handle) ==
    [message_id |-> message_id, subscription |-> subscription, handle |-> handle]

\* MESSAGE frames the transport may deliver
AckMessage(s, m) == Wire("MESSAGE", << <<"subscription", s>>, <<"message-id", m>> >>)

\* the transport delivers a MESSAGE; the callback it reaches keeps the frame
\* unless the application holds a frame with this message-id already
OnMessageKeep ==
    /\ ws = "open"
    /\ \E s \in Ids, m \in AckMessageIds :
         LET r == _on_message(AckMessage(s, m))
         IN  /\ connected' = r.connected
             /\ handshake' = r.handshake
             /\ invoked' = r.invoked
             /\ raised' = r.raised
             /\ parsed' = r.parsed
             /\ call' = Received(AckMessage(s, m))
             /\ kept' = IF r.invoked # <<>> /\ \A k \in kept : k.message_id # m
                        THEN kept \cup {Kept(m, s, r.invoked[1].handle)}
                        ELSE kept
    /\ sent' = <<>>
    /\ UNCHANGED << opened, counter, subscriptions, _connectCallback,
                    errorCallback, pingCallback, on_close, ws, pc, timeout,
                    total_ms, pending, app, bg >>

\* frame.ack(headers) on a frame held: the closure of lines 103-106 calls
\* self.ack with the messageID and subscription it captured; the frame is
\* dropped afterwards
FrameAck ==
    /\ pc = "idle"
    /\ \E k \in kept, headers \in AckHeaders :
         /\ sent' = _transmit(<<>>, "ACK", ack_headers(k.handle[1], k.handle[2], headers))
         /\ call' = Called("frame.ack", k.subscription, None)
         /\ app' = [AppIdle EXCEPT !.message_id = k.message_id, !.id = k.subscription,
                                   !.headers = headers]
         /\ kept' = kept \ {k}
    /\ invoked' = <<>>
    /\ raised' = NoError
    /\ parsed' = FALSE
    /\ UNCHANGED << opened, connected, counter, subscriptions, _connectCallback,
                    errorCallback, pingCallback, on_close, ws, pc, timeout,
                    total_ms, pending, handshake, bg >>

\* frame.nack(headers) on a frame held: the closure of lines 108-111
FrameNack ==
    /\ pc = "idle"
    /\ \E k \in kept, headers \in AckHeaders :
         /\ sent' = _transmit(<<>>, "NACK", nack_headers(k.handle[1], k.handle[2], headers))
         /\ call' = Called("frame.nack", k.subscription, None)
         /\ app' = [AppIdle EXCEPT !.message_id = k.message_id, !.id = k.subscription,
                                   !.headers = headers]
         /\ kept' = kept \ {k}
    /\ invoked' = <<>>
    /\ raised' = NoError
    /\ parsed' = FALSE
    /\ UNCHANGED << opened, connected, counter, subscriptions, _connectCallback,
                    errorCallback, pingCallback, on_close, ws, pc, timeout,
                    total_ms, pending, handshake, bg >>

-----------------------------------------------------------------------------
(* The operations statement by statement: the application context and the
   background context are two threads and no lock orders their statements.
   ws.send accepts every frame, as in Spec. *)

callbacks == << _connectCallback, errorCallback, pingCallback >>

waiting == << pc, timeout, total_ms, pending >>

\* the application context leaves an operation; disconnected and live are
\* history and stay
Idle(a) == [AppIdle EXCEPT !.disconnected = a.disconnected, !.live = a.live]

\* faulty variant: the registry entry is written after the frame has gone out
subscribe_registers_late(d, id, callback) == d

\* self.subscriptions[headers["id"]] = callback (line 195)
subscribe_registers(d, id, callback) == Put(d, id, callback)

\* subscribe, lines 189-195: the id is minted and the callback registered
SubscribeRegister ==
    /\ pc = "idle"
    /\ app.pc = "idle"
    /\ \E destination \in Destinations, callback \in Callbacks,
          headers \in {<<>>} \cup {<< <<"id", u>> >> : u \in UserIds} :
         LET h1 == IF mints(headers)
                   THEN Put(headers, "id", minted_id(counter)) ELSE headers
             h2 == Put(h1, "destination", destination)
             id == Get(h2, "id")
         IN  /\ mints(headers) => counter < MaxCounter
             /\ counter' = IF mints(headers) THEN counter + 1 ELSE counter
             /\ subscriptions' = subscribe_registers(subscriptions, id, callback)
             /\ app' = [app EXCEPT !.pc = "subscribe:196", !.id = id,
                                   !.headers = h2, !.callback = callback]
             /\ call' = Called("subscribe:195", id, callback)
    /\ sent' = <<>>
    /\ invoked' = <<>>
    /\ raised' = NoError
    /\ parsed' = FALSE
    /\ UNCHANGED << opened, connected, callbacks, on_close, ws, waiting,
                    handshake, bg, kept >>

\* subscribe, lines 196-201: the SUBSCRIBE frame goes out, the call returns
SubscribeTransmit ==
    /\ app.pc = "subscribe:196"
    /\ sent' = _transmit(<<>>, "SUBSCRIBE", app.headers)
    /\ call' = Called("subscribe", app.id, app.callback)
    /\ app' = [Idle(app) EXCEPT !.live = app.live \cup {app.id}]
    /\ invoked' = <<>>
    /\ raised' = NoError
    /\ parsed' = FALSE
    /\ UNCHANGED << opened, connected, counter, subscriptions, callbacks,
                    on_close, ws, waiting, handshake, bg, kept >>

\* unsubscribe, line 204: del self.subscriptions[id]; KeyError ends the call
UnsubscribeDelete ==
    /\ pc = "idle"
    /\ app.pc = "idle"
    /\ \E id \in Ids :
         IF Has(subscriptions, id)
         THEN /\ subscriptions' = Del(subscriptions, id)
              /\ app' = [app EXCEPT !.pc = "unsubscribe:205", !.id = id,
                                    !.live = app.live \ {id}]
              /\ call' = Called("unsubscribe:204", id, None)
              /\ raised' = NoError
         ELSE /\ app' = [app EXCEPT !.live = app.live \ {id}]
              /\ call' = Called("unsubscribe", id, None)
              /\ raised' = "KeyError"
              /\ UNCHANGED subscriptions
    /\ sent' = <<>>
    /\ invoked' = <<>>
    /\ parsed' = FALSE
    /\ UNCHANGED << opened, connected, counter, callbacks, on_close, ws,
                    waiting, handshake, bg, kept >>

\* unsubscribe, lines 205-207: the UNSUBSCRIBE frame goes out
UnsubscribeTransmit ==
    /\ app.pc = "unsubscribe:205"
    /\ sent' = _transmit(<<>>, "UNSUBSCRIBE", << <<"id", app.id>> >>)
    /\ call' = Called("unsubscribe", app.id, None)
    /\ app' = Idle(app)
    /\ invoked' = <<>>
    /\ raised' = NoError
    /\ parsed' = FALSE
    /\ UNCHANGED << opened, connected, counter, subscriptions, callbacks,
                    on_close, ws, waiting, handshake, bg, kept >>

\* disconnect, lines 162-167: the snapshot and the unsubscribe loop
DisconnectUnsubscribe ==
    /\ pc = "idle"
    /\ app.pc = "idle"
    /\ \E disconnectCallback \in {None, "onDisconnect"} :
         LET st == unsubscribe_each(subscription_ids(subscriptions),
                                    [subscriptions |-> subscriptions,
                                     sent |-> <<>>, raised |-> NoError])
         IN  /\ subscriptions' = st.subscriptions
             /\ sent' = st.sent
             /\ raised' = st.raised
             /\ call' = Called("disconnect:167", None, disconnectCallback)
             /\ app' = [app EXCEPT !.pc = "disconnect:169", !.live = {},
                                   !.callback = disconnectCallback]
    /\ invoked' = <<>>
    /\ parsed' = FALSE
    /\ UNCHANGED << opened, connected, counter, callbacks, on_close, ws,
                    waiting, handshake, bg, kept >>

\* disconnect, line 169: self._transmit("DISCONNECT", headers)
DisconnectTransmit ==
    /\ app.pc = "disconnect:169"
    /\ sent' = _transmit(<<>>, "DISCONNECT", <<>>)
    /\ call' = Called("disconnect:169", None, app.callback)
    /\ app' = [app EXCEPT !.pc = "disconnect:170"]
    /\ invoked' = <<>>
    /\ raised' = NoError
    /\ parsed' = FALSE
    /\ UNCHANGED << opened, connected, counter, subscriptions, callbacks,
                    on_close, ws, waiting, handshake, bg, kept >>

\* faulty variant: the close handler stays installed
suppressed_kept(h) == h

\* disconnect, line 170: self.ws.on_close = None
suppressed(h) == FALSE

DisconnectSuppress ==
    /\ app.pc = "disconnect:170"
    /\ on_close' = suppressed(on_close)
    /\ call' = Called("disconnect:170", None, app.callback)
    /\ app' = [app EXCEPT !.pc = "disconnect:171"]
    /\ sent' = <<>>
    /\ invoked' = <<>>
    /\ raised' = NoError
    /\ parsed' = FALSE
    /\ UNCHANGED << opened, connected, counter, subscriptions, callbacks, ws,
                    waiting, handshake, bg, kept >>

\* self.ws.close() seen from the application context: the socket is shut,
\* the background context has yet to notice and to end its loop
ws_closing(w) == IF w \in {"connecting", "open"} THEN "closing" ELSE w

\* disconnect, line 171: self.ws.close()
DisconnectClose ==
    /\ app.pc = "disconnect:171"
    /\ ws' = ws_closing(ws)
    /\ call' = Called("disconnect:171", None, app.callback)
    /\ app' = [app EXCEPT !.pc = "disconnect:172"]
    /\ sent' = <<>>
    /\ invoked' = <<>>
    /\ raised' = NoError
    /\ parsed' = FALSE
    /\ UNCHANGED << opened, connected, counter, subscriptions, callbacks,
                    on_close, waiting, handshake, bg, kept >>

\* disconnect, line 172: self._clean_up()
DisconnectCleanUp ==
    /\ app.pc = "disconnect:172"
    /\ connected' = _clean_up(connected)
    /\ handshake' = FALSE
    /\ call' = Called("disconnect:172", None, app.callback)
    /\ app' = [app EXCEPT !.pc = "disconnect:174", !.cleanups = app.cleanups + 1]
    /\ sent' = <<>>
    /\ invoked' = <<>>
    /\ raised' = NoError
    /\ parsed' = FALSE
    /\ UNCHANGED << opened, counter, subscriptions, callbacks, on_close, ws,
                    waiting, bg, kept >>

\* disconnect, lines 174-175: the callback is invoked, the call returns
DisconnectReturn ==
    /\ app.pc = "disconnect:174"
    /\ invoked' = IF app.callback # None
                  THEN << Invocation(app.callback, <<>>) >>
                  ELSE <<>>
    /\ call' = Called("disconnect", None, app.callback)
    /\ app' = [Idle(app) EXCEPT !.disconnected = TRUE]
    /\ sent' = <<>>
    /\ raised' = NoError
    /\ parsed' = FALSE
    /\ UNCHANGED << opened, connected, counter, subscriptions, callbacks,
                    on_close, ws, waiting, handshake, bg, kept >>

\* connect, lines 145-157: _connect has returned, the callbacks are stored
ConnectStore ==
    /\ pc = "while"
    /\ opened = TRUE
    /\ _connectCallback' = pending.connectCallback
    /\ errorCallback' = pending.errorCallback
    /\ pingCallback' = pending.pingCallback
    /\ pc' = "connect:159"
    /\ call' = Called("connect:157", None, None)
    /\ sent' = <<>>
    /\ invoked' = <<>>
    /\ raised' = NoError
    /\ parsed' = FALSE
    /\ UNCHANGED << opened, connected, counter, subscriptions, on_close, ws,
                    timeout, total_ms, pending, handshake, fine >>

\* connect, line 159: the CONNECT frame goes out, the call returns
ConnectTransmit ==
    /\ pc = "connect:159"
    /\ sent' = _transmit(<<>>, "CONNECT", connect_headers)
    /\ call' = [Called("connect", None, None) EXCEPT
                  !.timeout = timeout, !.total_ms = total_ms]
    /\ pc' = "idle"
    /\ timeout' = 0
    /\ total_ms' = 0
    /\ pending' = NoPending
    /\ invoked' = <<>>
    /\ raised' = NoError
    /\ parsed' = FALSE
    /\ UNCHANGED << opened, connected, counter, subscriptions, callbacks,
                    on_close, ws, handshake, fine >>

\* messages the transport delivers in the statement-level specification
StepMessages ==
    {Wire("CONNECTED", << <<"version", "1.2">> >>)}
    \cup {Wire("MESSAGE", << <<"subscription", s>>, <<"message-id", m>> >>) :
            s \in Ids, m \in MessageIds}

\* what the call record keeps of a step of _on_message on frame
Dispatching(op, frame) ==
    [Called(op,
            IF frame.command = "MESSAGE"
            THEN Get(frame.headers, "subscription") ELSE None,
            None) EXCEPT !.command = frame.command]

\* _on_message, lines 82-89: the transport delivers a message, the frame is
\* unmarshalled
Receive ==
    /\ ws = "open"
    /\ bg.pc = "idle"
    /\ \E message \in StepMessages :
         /\ bg' = [pc |-> "dispatch", frame |-> unmarshall_single(message)]
         /\ call' = Dispatching("_on_message:89", unmarshall_single(message))
    /\ parsed' = TRUE
    /\ sent' = <<>>
    /\ invoked' = <<>>
    /\ raised' = NoError
    /\ UNCHANGED << opened, connected, counter, subscriptions, callbacks,
                    on_close, ws, waiting, handshake, app, kept >>

\* _on_message, lines 90-94: self.connected = True, the connect callback
DispatchConnected ==
    /\ bg.pc = "dispatch"
    /\ bg.frame.command = "CONNECTED"
    /\ LET r == on_connected
       IN  /\ connected' = r.connected
           /\ handshake' = r.handshake
           /\ invoked' = r.invoked
           /\ raised' = r.raised
    /\ call' = Dispatching("_on_message", bg.frame)
    /\ bg' = BgIdle
    /\ parsed' = FALSE
    /\ sent' = <<>>
    /\ UNCHANGED << opened, counter, subscriptions, callbacks, on_close, ws,
                    waiting, app, kept >>

\* _on_message, lines 97-99 and 117-120: the membership test; an id that is
\* not registered ends the call as an unhandled message
DispatchTest ==
    /\ bg.pc = "dispatch"
    /\ bg.frame.command = "MESSAGE"
    /\ IF registered(Get(bg.frame.headers, "subscription"))
       THEN /\ bg' = [bg EXCEPT !.pc = "lookup"]
            /\ call' = Dispatching("_on_message:99", bg.frame)
       ELSE /\ bg' = BgIdle
            /\ call' = Dispatching("_on_message", bg.frame)
    /\ parsed' = FALSE
    /\ sent' = <<>>
    /\ invoked' = <<>>
    /\ raised' = NoError
    /\ UNCHANGED << opened, connected, counter, subscriptions, callbacks,
                    on_close, ws, waiting, handshake, app, kept >>

\* _on_message, lines 100-116: the lookup (KeyError for a key that is gone),
\* the handles, the callback
DispatchLookup ==
    /\ bg.pc = "lookup"
    /\ LET subscription == Get(bg.frame.headers, "subscription")
           messageID == Get(bg.frame.headers, "message-id")
           r == IF registered(subscription)
                THEN invoke(onreceive(subscription), <<messageID, subscription>>)
                ELSE [invoked |-> <<>>, raised |-> "KeyError"]
       IN  /\ invoked' = r.invoked
           /\ raised' = r.raised
    /\ call' = Dispatching("_on_message", bg.frame)
    /\ bg' = BgIdle
    /\ parsed' = FALSE
    /\ sent' = <<>>
    /\ UNCHANGED << opened, connected, counter, subscriptions, callbacks,
                    on_close, ws, waiting, handshake, app, kept >>

\* the background context finds the connection closed, by the peer or by
\* ws.close(), and calls ws.on_close if it is set; it does so between two
\* messages, never inside _on_message
CloseNotification ==
    /\ ws \in {"connecting", "open", "closing"}
    /\ bg.pc = "idle"
    /\ ws' = "closed"
    /\ handshake' = FALSE
    /\ IF on_close
       THEN /\ opened' = (IF ~opened THEN set_opened(opened) ELSE opened)
            /\ connected' = on_close_connected(connected)
            /\ call' = Called("_on_close", None, None)
       ELSE /\ call' = Called("closed", None, None)
            /\ UNCHANGED << opened, connected >>
    /\ sent' = <<>>
    /\ invoked' = <<>>
    /\ raised' = NoError
    /\ parsed' = FALSE
    /\ UNCHANGED << counter, subscriptions, callbacks, on_close, waiting, fine >>

-----------------------------------------------------------------------------
(* The client *)

\* Client.__init__
Init ==
    /\ opened = FALSE
    /\ connected = FALSE
    /\ counter = 0
    /\ subscriptions = <<>>
    /\ _connectCallback = None
    /\ errorCallback = None
    /\ pingCallback = NoAttribute
    /\ on_close = TRUE
    /\ ws = "idle"
    /\ pc = "idle"
    /\ timeout = 0
    /\ total_ms = 0
    /\ pending = NoPending
    /\ call = NoCall
    /\ sent = <<>>
    /\ invoked = <<>>
    /\ raised = NoError
    /\ parsed = FALSE
    /\ handshake = FALSE
    /\ app = AppIdle
    /\ bg = BgIdle
    /\ kept = {}

\* every operation runs to completion in one step, connect apart
Next ==
    \/ (Connect /\ UNCHANGED fine)
    \/ (LoopTest /\ UNCHANGED fine)
    \/ (Sleep /\ UNCHANGED fine)
    \/ (ConnectReturn /\ UNCHANGED fine)
    \/ (Disconnect /\ UNCHANGED fine)
    \/ (Subscribe /\ UNCHANGED fine)
    \/ (Unsubscribe /\ UNCHANGED fine)
    \/ (OnOpen /\ UNCHANGED fine)
    \/ (OnError /\ UNCHANGED fine)
    \/ (OnClose /\ UNCHANGED fine)
    \/ (OnMessage /\ UNCHANGED fine)

Spec == Init /\ [][Next]_vars

\* the same client on the transport of the websocket library; connect is
\* called without a timeout
NextTransport ==
    \/ (Connect /\ timeout' = 0 /\ UNCHANGED fine)
    \/ (LoopTest /\ UNCHANGED fine)
    \/ (Sleep /\ UNCHANGED fine)
    \/ (ConnectReturnOnTransport /\ UNCHANGED fine)
    \/ (DisconnectOnTransport /\ UNCHANGED fine)
    \/ (SubscribeOnTransport /\ UNCHANGED fine)
    \/ (UnsubscribeOnTransport /\ UNCHANGED fine)
    \/ (OnOpen /\ UNCHANGED fine)
    \/ (OnError /\ UNCHANGED fine)
    \/ (OnClose /\ UNCHANGED fine)
    \/ (OnMessage /\ UNCHANGED fine)

SpecTransport == Init /\ [][NextTransport]_vars

\* the client with ack and nack: connect is called without a timeout and
\* without callbacks and waits for opened, subscribe registers one callback
NextAck ==
    \/ (Connect /\ timeout' = 0 /\ pending' = NoPending /\ UNCHANGED fine)
    \/ (ConnectReturn /\ UNCHANGED fine)
    \/ (OnOpen /\ UNCHANGED fine)
    \/ (Subscribe /\ call'.callback = "cbA" /\ UNCHANGED fine)
    \/ (Unsubscribe /\ UNCHANGED fine)
    \/ OnMessageKeep
    \/ Ack
    \/ Nack
    \/ FrameAck
    \/ FrameNack

SpecAck == Init /\ [][NextAck]_vars

\* the client statement by statement; connect is called without a timeout,
\* between two operations of the application context and not while a
\* closed connection is still being torn down
NextSteps ==
    \/ (/\ Connect
        /\ timeout' = 0
        /\ app.pc = "idle"
        /\ ws # "closing"
        /\ app' = [app EXCEPT !.disconnected = FALSE]
        /\ UNCHANGED << bg, kept >>)
    \/ ConnectStore
    \/ ConnectTransmit
    \/ SubscribeRegister
    \/ SubscribeTransmit
    \/ UnsubscribeDelete
    \/ UnsubscribeTransmit
    \/ DisconnectUnsubscribe
    \/ DisconnectTransmit
    \/ DisconnectSuppress
    \/ DisconnectClose
    \/ DisconnectCleanUp
    \/ DisconnectReturn
    \/ (OnOpen /\ UNCHANGED fine)
    \/ Receive
    \/ DispatchConnected
    \/ DispatchTest
    \/ DispatchLookup
    \/ CloseNotification

SpecSteps == Init /\ [][NextSteps]_vars

-----------------------------------------------------------------------------
(* Properties *)

UnsubscribeFrame(id) == Frame("UNSUBSCRIBE", << <<"id", id>> >>)

\* C1: a call to disconnect() with N active subscriptions transmits exactly
\* one UNSUBSCRIBE frame per active subscription id, each carrying that id,
\* then exactly one DISCONNECT frame after all of them, and leaves the
\* registry empty and connected false.
C1_DisconnectCleanliness ==
    [][call'.op = "disconnect" =>
         LET active == KeySet(subscriptions)
             n == Cardinality(active)
         IN  /\ raised' = NoError
             /\ Len(sent') = n + 1
             /\ \A id \in active :
                  Cardinality({i \in 1..n : sent'[i] = UnsubscribeFrame(id)}) = 1
             /\ sent'[n + 1].command = "DISCONNECT"
             /\ subscriptions' = <<>>
             /\ connected' = FALSE]_vars

\* disconnect has run with two active subscriptions
C1_Witness ==
    /\ call.op = "disconnect"
    /\ Len(sent) = 3
    /\ sent[1].command = "UNSUBSCRIBE"
    /\ sent[2].command = "UNSUBSCRIBE"
    /\ sent[3].command = "DISCONNECT"
    /\ subscriptions = <<>>
    /\ ~connected

C3_MintedIdIsFresh ==
    [][(call'.op = "subscribe" /\ counter' # counter)
         => ~Has(subscriptions, call'.id)]_vars

\* C4: dispatching a MESSAGE frame whose subscription header names an id with
\* no registry entry invokes no callback, raises nothing, transmits nothing
\* and leaves opened, connected, counter and the registry unchanged.
C4_UnknownSubscription ==
    [][(/\ call'.op = "_on_message"
        /\ call'.command = "MESSAGE"
        /\ ~Has(subscriptions, call'.id))
         => /\ invoked' = <<>>
            /\ raised' = NoError
            /\ sent' = <<>>
            /\ UNCHANGED << opened, connected, counter, subscriptions >>]_vars

\* a MESSAGE for an unregistered id was dispatched while another id is
\* registered with a callback
C4_Witness ==
    /\ call.op = "_on_message"
    /\ call.command = "MESSAGE"
    /\ ~Has(subscriptions, call.id)
    /\ Len(subscriptions) > 0
    /\ subscriptions[1][2] # None
    /\ invoked = <<>>
    /\ raised = NoError

\* C5: a connect call that fails with the timeout error was given a timeout
\* T > 0 and fails after at least T and at most T + 250 ms of accumulated
\* polling time, without having transmitted a CONNECT frame or stored the
\* callbacks.
C5_ConnectTimeout ==
    (call.op = "connect" /\ raised = "TimeoutError") =>
        /\ call.timeout > 0
        /\ call.total_ms >= call.timeout
        /\ call.total_ms <= call.timeout + PollMs
        /\ sent = <<>>
        /\ _connectCallback = None
        /\ errorCallback = None
        /\ pingCallback = NoAttribute

\* connect(timeout = 500) has failed after 750 ms with the transport silent
C5_Witness ==
    /\ call.op = "connect"
    /\ raised = "TimeoutError"
    /\ ~opened
    /\ call.timeout = 500
    /\ call.total_ms = 750

\* C6: each of the open, error and close handlers sets opened; once opened is
\* set the waiting connect does not fail with a timeout; and with timeout = 0
\* connect never fails with a timeout.
C6_WaitEndsOnNotification ==
    [][/\ (call'.op \in {"_on_open", "_on_error", "_on_close"} => opened')
       /\ (pc # "idle" /\ opened) => raised' # "TimeoutError"
       /\ (pc # "idle" /\ timeout = 0) => raised' # "TimeoutError"]_vars

\* C7: connected is true only if a CONNECTED frame has been dispatched since
\* the transport last closed and since disconnect last ran; so connected is
\* false after every transport close.
C7_ConnectedOnlyAfterHandshake == connected => handshake

C9_HeartbeatNeverRaises ==
    (call.op = "_on_message" /\ call.command = "heartbeat") =>
        /\ ~parsed
        /\ raised = NoError
        /\ sent = <<>>
        /\ IF pingCallback \in {None, NoAttribute}
           THEN invoked = <<>>
           ELSE Len(invoked) = 1 /\ invoked[1].callback = pingCallback

\* C10: unsubscribe(id) with id registered removes exactly that entry and
\* transmits exactly one UNSUBSCRIBE frame carrying id; with id absent it
\* raises, transmits nothing and leaves registry, counter, opened and
\* connected unchanged.
C10_Unsubscribe ==
    [][call'.op = "unsubscribe" =>
         IF Has(subscriptions, call'.id)
         THEN /\ raised' = NoError
              /\ KeySet(subscriptions') = KeySet(subscriptions) \ {call'.id}
              /\ Len(subscriptions') = Len(subscriptions) - 1
              /\ \A k \in KeySet(subscriptions') :
                   Get(subscriptions', k) = Get(subscriptions, k)
              /\ sent' = << UnsubscribeFrame(call'.id) >>
              /\ UNCHANGED << counter, opened, connected >>
         ELSE /\ raised' = "KeyError"
              /\ sent' = <<>>
              /\ UNCHANGED << subscriptions, counter, opened, connected >>]_vars

\* an id was unsubscribed a second time while another subscription is active
C10_Witness ==
    /\ call.op = "unsubscribe"
    /\ raised = "KeyError"
    /\ ~Has(subscriptions, call.id)
    /\ Len(subscriptions) > 0
    /\ sent = <<>>

\* C18: a connect call with a positive timeout raises TimeoutError only if
\* opened is still false at the moment it raises, whatever the timeout is.
C18_TimeoutOnlyWhileUnopened ==
    (call.op = "connect" /\ raised = "TimeoutError") => ~opened

\* C19: opened is monotonic: no operation resets it once a notification has
\* set it, and a connect call that finds it set never enters the polling
\* sleep and never times out: it leaves the wait by the normal return,
\* with no polling interval added.
C19_OpenedMonotonic ==
    [][/\ opened => opened'
       /\ (opened /\ pc # "sleep") =>
            (pc' # "sleep" /\ raised' # "TimeoutError")
       /\ (opened /\ pc = "while" /\ pc' # pc) =>
            /\ call'.op = "connect"
            /\ call'.total_ms = total_ms
            /\ raised' = NoError]_vars

\* a later connect has returned without polling while the new transport
\* connection is not open yet: opened was left set by an earlier notification
C19_Witness ==
    /\ call.op = "connect"
    /\ raised = NoError
    /\ call.total_ms = 0
    /\ ws = "connecting"
    /\ opened

\* C12: disconnect() is safe in every connection state (before any connect
\* call, with the transport open before CONNECTED, while connected, after
\* the transport has closed, a second time): it raises nothing, leaves
\* connected false and the registry empty, and invokes the callback it was
\* given.
C12_DisconnectSafeInEveryState ==
    [][call'.op = "disconnect" =>
         /\ raised' = NoError
         /\ ~connected'
         /\ subscriptions' = <<>>
         /\ (call'.callback # None =>
               invoked' = << Invocation(call'.callback, <<>>) >>)]_vars

\* C11: ack transmits exactly one ACK frame and nack exactly one NACK frame
\* whose headers map message-id and subscription to the ids given, for every
\* headers argument (None, empty, already holding both keys with other
\* values); opened, connected, the counter and the registry stay as they are.
C11_AckNackFraming ==
    [][call'.op \in {"ack", "nack"} =>
         /\ raised' = NoError
         /\ Len(sent') = 1
         /\ sent'[1].command = (IF call'.op = "ack" THEN "ACK" ELSE "NACK")
         /\ LET h == sent'[1].headers
            IN  /\ Cardinality({i \in 1..Len(h) : h[i][1] = "message-id"}) = 1
                /\ Cardinality({i \in 1..Len(h) : h[i][1] = "subscription"}) = 1
                /\ Get(h, "message-id") = app'.message_id
                /\ Get(h, "subscription") = app'.id
         /\ UNCHANGED << opened, connected, counter, subscriptions >>]_vars

\* nack was called with headers that already held both keys with other values
C11_Witness ==
    /\ call.op = "nack"
    /\ app.headers # NoHeaders
    /\ Has(app.headers, "message-id")
    /\ Get(app.headers, "message-id") # app.message_id
    /\ Has(app.headers, "subscription")
    /\ Len(sent) = 1
    /\ Get(sent[1].headers, "message-id") = app.message_id

\* C17: the ack and nack handles of a delivered MESSAGE frame stay bound to
\* that frame's message-id and subscription: invoked at any later point they
\* transmit one ACK (NACK) frame with exactly these two values.
C17_HandlesStayBound ==
    [][call'.op \in {"frame.ack", "frame.nack"} =>
         /\ raised' = NoError
         /\ Len(sent') = 1
         /\ sent'[1].command = (IF call'.op = "frame.ack" THEN "ACK" ELSE "NACK")
         /\ Get(sent'[1].headers, "message-id") = app'.message_id
         /\ Get(sent'[1].headers, "subscription") = app'.id]_vars

\* a handle was invoked after its subscription was unsubscribed, while the
\* frame of another message to another subscription is still held
C17_Witness ==
    /\ call.op = "frame.ack"
    /\ ~Has(subscriptions, app.id)
    /\ \E k \in kept : k.message_id # app.message_id /\ k.subscription # app.id
    /\ Get(sent[1].headers, "message-id") = app.message_id

\* C13: registry mutations of the application context and registry reads of
\* the background dispatch exclude each other: a dispatch never fails
\* because the entry went away between its membership test and its lookup.
C13_DispatchNeverLosesEntry ==
    call.op = "_on_message" => raised # "KeyError"

\* C14: when disconnect() returns, and from then until connect is called
\* again, connected is false, however the background context's CONNECTED
\* dispatch or close handling interleaves with the call.
C14_DisconnectedStaysFalse ==
    app.disconnected => ~connected

\* the CONNECT frame of the connect call in progress
ConnectFrame == Frame("CONNECT", connect_headers)

\* what connect does once the wait is over, and what sets connected
ConnectSteps ==
    /\ call'.op = "connect:157" =>
         /\ _connectCallback' = pending.connectCallback
         /\ errorCallback' = pending.errorCallback
         /\ pingCallback' = pending.pingCallback
         /\ sent' = <<>>
         /\ connected' = connected
    /\ call'.op = "connect" =>
         /\ _connectCallback = pending.connectCallback
         /\ errorCallback = pending.errorCallback
         /\ pingCallback = pending.pingCallback
         /\ UNCHANGED callbacks
         /\ sent' = << ConnectFrame >>
         /\ raised' = NoError
         /\ pc' = "idle"
         /\ connected' = connected
    /\ (connected' /\ ~connected) =>
         (call'.op = "_on_message" /\ call'.command = "CONNECTED")
    /\ (call'.op = "_on_message" /\ call'.command = "CONNECTED") =>
         /\ connected'
         /\ invoked' = IF _connectCallback = None
                       THEN <<>>
                       ELSE << Invocation(_connectCallback, <<>>) >>

\* C15 as stated: a connect call that leaves its wait stores the three
\* callbacks, then transmits exactly one CONNECT frame and returns without
\* waiting for the reply; connected is still false when it returns, and
\* becomes true only when a CONNECTED frame is dispatched, which invokes
\* the connect callback once per frame.
C15_ConnectReturnsUnconnected ==
    [][ConnectSteps /\ (call'.op = "connect" => ~connected')]_vars

\* C15 amended: connect itself never changes connected (so it is false at
\* the return unless a CONNECTED frame was dispatched before); the rest as
\* stated.
C15_ConnectLeavesConnected ==
    [][ConnectSteps]_vars

\* connect has returned, no CONNECTED frame was dispatched, the callbacks
\* are the ones it was given
C15_Witness ==
    /\ call.op = "connect"
    /\ sent = << ConnectFrame >>
    /\ ~connected
    /\ ~handshake
    /\ _connectCallback = "onConnect"

\* disconnect performs its cleanup once, with the transport closed by it,
\* and before its callback
CleanupOnce ==
    /\ call'.op = "disconnect:172" =>
         (ws \notin {"connecting", "open"} /\ app.cleanups = 0 /\ ~connected')
    /\ call'.op = "disconnect" =>
         (app.cleanups = 1 /\ ws \notin {"connecting", "open"})

\* the application context has passed line 169 of disconnect
FrameTransmitted ==
    \/ app.pc \in {"disconnect:170", "disconnect:171", "disconnect:172",
                   "disconnect:174"}
    \/ app.disconnected

\* the application context has passed line 170 of disconnect
CloseSuppressed ==
    \/ app.pc \in {"disconnect:171", "disconnect:172", "disconnect:174"}
    \/ app.disconnected

\* C16 as stated: once disconnect has transmitted the DISCONNECT frame, a
\* close notification no longer runs the close handler; disconnect performs
\* its cleanup exactly once, after closing the transport and before its
\* callback.
C16_NoCloseHandlerAfterFrame ==
    [][/\ FrameTransmitted => call'.op # "_on_close"
       /\ CleanupOnce]_vars

\* C16 amended: once disconnect has cleared ws.on_close (line 170, the
\* statement after the transmission), a close notification no longer runs
\* the close handler; the rest as stated.
C16_NoCloseHandlerAfterSuppress ==
    [][/\ CloseSuppressed => call'.op # "_on_close"
       /\ CleanupOnce]_vars

\* the close that disconnect caused was notified while disconnect was still
\* on its way to the cleanup, and no handler ran
C16_Witness ==
    /\ call.op = "closed"
    /\ app.pc = "disconnect:172"
    /\ ws = "closed"
    /\ connected

\* C20: the registry is updated before the frame goes out: when SUBSCRIBE is
\* transmitted the id is registered with the callback, when UNSUBSCRIBE is
\* transmitted the id is gone; so an id whose SUBSCRIBE has gone out and
\* that was not unsubscribed since is registered, and a MESSAGE for it is
\* dispatched to the registered callback.
C20_RegistryBeforeFrame ==
    [][/\ call'.op = "subscribe" =>
            /\ Has(subscriptions, call'.id)
            /\ Get(subscriptions, call'.id) = call'.callback
            /\ Len(sent') = 1
            /\ sent'[1].command = "SUBSCRIBE"
            /\ Get(sent'[1].headers, "id") = call'.id
       /\ (call'.op = "unsubscribe" /\ raised' = NoError) =>
            /\ ~Has(subscriptions, call'.id)
            /\ sent' = << UnsubscribeFrame(call'.id) >>
       /\ app'.live \subseteq KeySet(subscriptions')
       /\ (bg.pc = "dispatch" /\ bg' # bg /\ call'.id \in app.live) =>
            bg'.pc = "lookup"
       /\ (bg.pc = "lookup" /\ bg' # bg /\ call'.id \in app.live) =>
            /\ raised' = NoError
            /\ invoked' = << Invocation(Get(subscriptions, call'.id),
                                        << Get(bg.frame.headers, "message-id"),
                                           call'.id >>) >>]_vars

\* a MESSAGE was dispatched to the callback of a subscription whose
\* SUBSCRIBE frame had gone out, while the next subscribe call had
\* registered its id and not yet transmitted its frame
C20_Witness ==
    /\ call.op = "_on_message"
    /\ call.id \in app.live
    /\ Len(invoked) = 1
    /\ invoked[1].callback = Get(subscriptions, call.id)
    /\ app.pc = "subscribe:196"
    /\ app.id # call.id

====
